---------------------------- MODULE Spec2Model ----------------------------
(***************************************************************************)
(* A model of the merge operators of sd_mecha/merge_methods/__init__.py.   *)
(*                                                                         *)
(* Numbers are exact rationals [n |-> numerator, d |-> denominator], kept  *)
(* in lowest terms with d > 0.  The IEEE special values are the records    *)
(* with d = 0: NaN is 0/0, +inf is 1/0 and -inf is -1/0.  Of the floating- *)
(* point roundings only the one of Tensor.half() is modelled.              *)
(*                                                                         *)
(* A tensor is a record [shape |-> <<d1, ..., dk>>, data |-> the elements  *)
(* in row-major order]; where only the flattened values matter (the TIES   *)
(* engine, top_k_tensor_sum) a tensor is the sequence of its elements.     *)
(***************************************************************************)
EXTENDS Integers, Sequences, FiniteSets, TLC

VARIABLES
    pc,     \* position of the call under study: "call", "loop", "done"; of the
            \* caller of rotate and tensor_sum: the number of calls it has made
    args,   \* the arguments of the call
    res,    \* the locals and the result of the call
    mem,    \* the caller's tensors a and b, which the operators receive by reference
    cache,  \* the caller-owned rotation cache: key -> dictionary
    solves  \* history: key -> number of orthogonal_procrustes calls made for it

vars == <<pc, args, res, mem, cache, solves>>

(***************************************************************************)
(* Bounds of the model.                                                    *)
(***************************************************************************)
MaxNumer == 12      \* ratios i/4 and i/10 with |i| <= MaxNumer
MaxN == 10          \* largest element count handed to ratio_to_region
MaxLen == 3         \* longest flattened tensor
MaxVal == 2         \* tensor elements range over -MaxVal..MaxVal
MaxDelta == 2       \* delta elements range over -MaxDelta..MaxDelta
MaxTilt == 9        \* tilts are i/2 with |i| <= MaxTilt
MaxAxis == 4        \* longest axis of a filter shape
MaxPoints == 3      \* most points handed to the geometric median
MaxElem == 1        \* the caller's tensors hold elements from 0..MaxElem
MaxCalls == 3       \* calls the caller of rotate and tensor_sum makes
MaxSets == 3        \* most deltas handed to overlapping_sets_pmf

(***************************************************************************)
(* Exact arithmetic.                                                       *)
(***************************************************************************)
Abs(x) == IF x < 0 THEN -x ELSE x

Min(x, y) == IF x <= y THEN x ELSE y

Max(x, y) == IF x >= y THEN x ELSE y

RECURSIVE Gcd(_, _)
Gcd(x, y) == IF y = 0 THEN x ELSE Gcd(y, x % y)

\* n/d in lowest terms, d # 0
Q(n, d) ==
    LET s == IF d < 0 THEN -1 ELSE 1
        g == Gcd(Abs(n), Abs(d))
    IN  [n |-> (s * n) \div g, d |-> (s * d) \div g]

I(x) == [n |-> x, d |-> 1]

NaN == [n |-> 0, d |-> 0]

PosInf == [n |-> 1, d |-> 0]

NegInf == [n |-> -1, d |-> 0]

IsNaN(x) == x.d = 0 /\ x.n = 0

IsFinite(x) == x.d # 0

Sgn(i) == IF i > 0 THEN 1 ELSE IF i < 0 THEN -1 ELSE 0

\* IEEE addition: inf + (-inf) and anything with NaN is NaN
RAdd(x, y) ==
    IF IsNaN(x) \/ IsNaN(y) THEN NaN
    ELSE IF x.d = 0 /\ y.d = 0 THEN (IF x.n = y.n THEN x ELSE NaN)
    ELSE IF x.d = 0 THEN x
    ELSE IF y.d = 0 THEN y
    ELSE LET g == Gcd(x.d, y.d)
         IN  Q(x.n * (y.d \div g) + y.n * (x.d \div g), (x.d \div g) * y.d)

RNeg(x) == [n |-> -x.n, d |-> x.d]

RSub(x, y) == RAdd(x, RNeg(y))

\* IEEE multiplication: 0 * inf is NaN
RMul(x, y) ==
    IF IsNaN(x) \/ IsNaN(y) THEN NaN
    ELSE IF x.d = 0 \/ y.d = 0
         THEN [n |-> Sgn(x.n) * Sgn(y.n), d |-> 0]
    ELSE LET g1 == Gcd(Abs(x.n), y.d)
             g2 == Gcd(Abs(y.n), x.d)
         IN  IF x.n = 0 \/ y.n = 0 THEN I(0)
             ELSE Q((x.n \div g1) * (y.n \div g2), (x.d \div g2) * (y.d \div g1))

\* IEEE division: 0/0 and inf/inf are NaN, x/0 is an infinity
RDiv(x, y) ==
    IF IsNaN(x) \/ IsNaN(y) THEN NaN
    ELSE IF x.d = 0 /\ y.d = 0 THEN NaN
    ELSE IF x.d = 0 THEN [n |-> x.n * (IF y.n < 0 THEN -1 ELSE 1), d |-> 0]
    ELSE IF y.d = 0 THEN I(0)
    ELSE IF y.n = 0 THEN [n |-> Sgn(x.n), d |-> 0]
    ELSE RMul(x, IF y.n < 0 THEN [n |-> -y.d, d |-> -y.n] ELSE [n |-> y.d, d |-> y.n])

\* comparisons: every comparison with NaN is false
RLe(x, y) ==
    IF IsNaN(x) \/ IsNaN(y) THEN FALSE
    ELSE IF x.d = 0 /\ y.d = 0 THEN x.n <= y.n
    ELSE IF x.d = 0 THEN x.n < 0
    ELSE IF y.d = 0 THEN y.n > 0
    ELSE LET g == Gcd(x.d, y.d) IN x.n * (y.d \div g) <= y.n * (x.d \div g)

RLt(x, y) ==
    IF IsNaN(x) \/ IsNaN(y) THEN FALSE
    ELSE IF x.d = 0 /\ y.d = 0 THEN x.n < y.n
    ELSE IF x.d = 0 THEN x.n < 0
    ELSE IF y.d = 0 THEN y.n > 0
    ELSE LET g == Gcd(x.d, y.d) IN x.n * (y.d \div g) < y.n * (x.d \div g)

RAbs(x) == [n |-> Abs(x.n), d |-> x.d]

RMin(x, y) == IF RLe(x, y) THEN x ELSE y

RMax(x, y) == IF RLe(y, x) THEN x ELSE y

\* floor of a finite rational
Floor(x) == x.n \div x.d

\* Python's int(x): truncation toward zero
Trunc(x) == IF x.n >= 0 THEN x.n \div x.d ELSE -((-x.n) \div x.d)

\* Python's round(x): to the nearest integer, halves to the even one
PyRound(x) ==
    LET f == Floor(x)
        twice == 2 * (x.n - f * x.d)
    IN  IF twice < x.d THEN f
        ELSE IF twice > x.d THEN f + 1
        ELSE IF f % 2 = 0 THEN f ELSE f + 1

\* math.fmod(x, 1.0): the remainder has the sign of x
Fmod1(x) == RSub(x, I(Trunc(x)))

(***************************************************************************)
(* ratio_to_region                                                         *)
(***************************************************************************)
\* the function without the wrap of a negative offset
ratio_to_region_no_wrap(width, offset, n) ==
    LET offset1 == IF RLt(width, I(0)) THEN RAdd(offset, width) ELSE offset
        width1 == IF RLt(width, I(0)) THEN RNeg(width) ELSE width
        width2 == RMin(width1, I(1))
        offset3 == Fmod1(offset1)
    IN  IF RLe(RAdd(width2, offset3), I(1))
        THEN [start |-> PyRound(RMul(offset3, I(n))),
              end |-> PyRound(RMul(RAdd(width2, offset3), I(n))),
              inverted |-> FALSE]
        ELSE [start |-> PyRound(RMul(RSub(RAdd(width2, offset3), I(1)), I(n))),
              end |-> PyRound(RMul(offset3, I(n))),
              inverted |-> TRUE]

ratio_to_region(width, offset, n) ==
    LET offset1 == IF RLt(width, I(0)) THEN RAdd(offset, width) ELSE offset
        width1 == IF RLt(width, I(0)) THEN RNeg(width) ELSE width
        width2 == RMin(width1, I(1))
        offset2 == IF RLt(offset1, I(0))
                   THEN RSub(RAdd(I(1), offset1), I(Trunc(offset1)))
                   ELSE offset1
        offset3 == Fmod1(offset2)
    IN  IF RLe(RAdd(width2, offset3), I(1))
        THEN [start |-> PyRound(RMul(offset3, I(n))),
              end |-> PyRound(RMul(RAdd(width2, offset3), I(n))),
              inverted |-> FALSE]
        ELSE [start |-> PyRound(RMul(RSub(RAdd(width2, offset3), I(1)), I(n))),
              end |-> PyRound(RMul(offset3, I(n))),
              inverted |-> TRUE]

\* the ratios the calls are made with: quarters and tenths
Ratios == {Q(i, d) : i \in -MaxNumer..MaxNumer, d \in {4, 10}}

Unused == <<>>

InitRegion ==
    /\ pc = "call"
    /\ args \in [width : Ratios, offset : Ratios, n : 0..MaxN]
    /\ res = Unused
    /\ mem = Unused
    /\ cache = Unused
    /\ solves = Unused

CallRatioToRegion ==
    /\ pc = "call"
    /\ res' = ratio_to_region(args.width, args.offset, args.n)
    /\ pc' = "done"
    /\ UNCHANGED <<args, mem, cache, solves>>

NextRegion == CallRatioToRegion

SpecRegion == InitRegion /\ [][NextRegion]_vars

\* the wrap of x into [0, 1): x minus its floor
Wrap01(x) == RSub(x, I(Floor(x)))

StableRank(x, i) ==
    1 + Cardinality({j \in 1..Len(x) : x[j] < x[i] \/ (x[j] = x[i] /\ j < i)})

\* torch.argsort(x, stable=True): the r-th entry is the position of the
\* r-th smallest element
Argsort(x) ==
    [r \in 1..Len(x) |-> CHOOSE i \in 1..Len(x) : StableRank(x, i) = r]

\* torch.msort(x)
Msort(x) == LET p == Argsort(x) IN [r \in 1..Len(x) |-> x[p[r]]]

SeqAbs(x) == [i \in 1..Len(x) |-> Abs(x[i])]

\* torch.kthvalue(x, k)[0]: the k-th smallest element, 1 <= k <= numel
Kthvalue(x, k) == Msort(x)[k]

\* torch.gather(x, 0, idx)
Gather(x, idx) == [i \in 1..Len(idx) |-> x[idx[i]]]

\* the spacing of the float32 values around the integer m >= 0
RECURSIVE Float32Ulp(_)
Float32Ulp(m) == IF m >= 2^24 THEN 2 * Float32Ulp(m \div 2) ELSE 1

\* a.float() on integer values: the nearest float32 value, ties to the even
\* significand
Float32(x) == LET u == Float32Ulp(Abs(x)) IN PyRound(Q(x, u)) * u

SeqFloat32(x) == [i \in 1..Len(x) |-> Float32(x[i])]

\* kthvalue of abs(a.float()): a 0-dimensional float32 tensor, which the
\* comparisons with abs(a_dist) take at its value
kth_abs_value(a, k) ==
    IF k <= 0 THEN -1 ELSE Kthvalue(SeqAbs(SeqFloat32(a)), k)

\* indices_mask over the sorted values a_dist, before the gather
top_k_mask(a_dist, region) ==
    LET start_top_k == kth_abs_value(a_dist, region.start)
        end_top_k == kth_abs_value(a_dist, region.end)
        inside == [r \in 1..Len(a_dist) |->
                      start_top_k <= Abs(a_dist[r]) /\ Abs(a_dist[r]) <= end_top_k]
    IN  IF region.inverted
        THEN [r \in 1..Len(a_dist) |-> ~inside[r]]
        ELSE inside

\* the locals and the result of top_k_tensor_sum
top_k_tensor_sum(a, b, width, offset) ==
    LET a_dist == Msort(a)
        b_indices == Argsort(b)
        redist_indices == Argsort(b_indices)
        region == ratio_to_region(width, offset, Len(a))
        sorted_mask == top_k_mask(a_dist, region)
        indices_mask == Gather(sorted_mask, redist_indices)
        a_redist == Gather(a_dist, redist_indices)
    IN  [a_dist |-> a_dist,
         redist_indices |-> redist_indices,
         region |-> region,
         sorted_mask |-> sorted_mask,
         indices_mask |-> indices_mask,
         out |-> [i \in 1..Len(a) |->
                    IF indices_mask[i] THEN a_redist[i] ELSE a[i]]]

\* an element of a float64 tensor that no float32 value equals
Wide == 2^24 + 1

\* the elements of a: small integers, which every floating dtype holds, and
\* Wide, which a float64 tensor holds
TopKValues == (-MaxVal..MaxVal) \cup {Wide}

TopKWidths == {Q(i, 4) : i \in {-2, 0, 1, 2, 3, 4}}

TopKOffsets == {Q(i, 4) : i \in {-1, 0, 1, 2, 3}}

TopKLens == 1..MaxLen

InitTopK ==
    /\ pc = "call"
    /\ \E n \in TopKLens :
          args \in [a : [1..n -> TopKValues], b : [1..n -> 0..MaxVal],
                    width : TopKWidths, offset : TopKOffsets]
    /\ res = Unused
    /\ mem = Unused
    /\ cache = Unused
    /\ solves = Unused

CallTopKTensorSum ==
    /\ pc = "call"
    /\ res' = top_k_tensor_sum(args.a, args.b, args.width, args.offset)
    /\ pc' = "done"
    /\ UNCHANGED <<args, mem, cache, solves>>

NextTopK == CallTopKTensorSum

SpecTopK == InitTopK /\ [][NextTopK]_vars

DistinctAbs(a) ==
    \A i, j \in 1..Len(a) : Abs(a[i]) = Abs(a[j]) => i = j

\* the 0-based rank of the value v of a by absolute magnitude
AbsRank(a, v) == Cardinality({j \in 1..Len(a) : Abs(a[j]) < Abs(v)})

\* C10: for a with pairwise distinct absolute values the sorted values
\* selected for replacement are exactly those whose magnitude rank lies in
\* [start, end) (the complement when inverted), so end - start of them are
\* selected (numel - (end - start) when inverted); every other output element
\* equals the element of a; width = 0 selects nothing and the output is a.
C10_RankWindowHalfOpen ==
    (pc = "done" /\ DistinctAbs(args.a)) =>
        LET n == Len(args.a)
            region == ratio_to_region(args.width, args.offset, n)
            window(v) == region.start <= AbsRank(args.a, v)
                         /\ AbsRank(args.a, v) < region.end
            chosen == {r \in 1..n : res.sorted_mask[r]}
        IN  /\ \A r \in 1..n :
                  res.sorted_mask[r] <=>
                      (IF region.inverted THEN ~window(res.a_dist[r])
                                          ELSE window(res.a_dist[r]))
            /\ Cardinality(chosen) =
                  (IF region.inverted THEN n - (region.end - region.start)
                                      ELSE region.end - region.start)
            /\ \A i \in 1..n : ~res.indices_mask[i] => res.out[i] = args.a[i]
            /\ args.width = I(0) => res.out = args.a

\* the multiset of the elements of x, as value -> count
Multiset(x) ==
    [v \in {x[i] : i \in 1..Len(x)} |->
        Cardinality({i \in 1..Len(x) : x[i] = v})]

\* C11: for all same-shape a and b, top_k_tensor_sum(a, b, width=1, offset=0)
\* is a permutation of a's values arranged in b's rank order: b[i] < b[j]
\* implies result[i] <= result[j], and the element at the position of b's
\* r-th smallest value is a's r-th smallest value.
C11_FullWindowPermutes ==
    (pc = "done" /\ args.width = I(1) /\ args.offset = I(0)) =>
        LET n == Len(args.a)
            b_indices == Argsort(args.b)
        IN  /\ Multiset(res.out) = Multiset(args.a)
            /\ \A i, j \in 1..n :
                  args.b[i] < args.b[j] => res.out[i] <= res.out[j]
            /\ \A r \in 1..n : res.out[b_indices[r]] = Msort(args.a)[r]

(***************************************************************************)
(* The TIES engine: filter_top_k, ties_sum_deltas, ties_sum.  A stack of   *)
(* deltas is a sequence, one flattened tensor per model.                   *)
(***************************************************************************)
\* the sequence f with every element computed
Tab(f) == SubSeq(f, 1, Len(f))

RECURSIVE SumSeq(_)
SumSeq(x) == IF x = <<>> THEN 0 ELSE x[1] + SumSeq(Tail(x))

\* torch.nan_to_num: NaN becomes 0, an infinity the largest finite value of
\* its sign (the record n/0 with |n| = 2)
nan_to_num(x) ==
    IF IsNaN(x) THEN I(0)
    ELSE IF x.d = 0 THEN [n |-> 2 * Sgn(x.n), d |-> 0]
    ELSE x

\* the k of line 237: how many of the smallest magnitudes end at the threshold
top_k_count(numel, k) == Max(Trunc(RMul(RSub(I(1), k), I(numel))), 1)

\* top_k_filter of line 239
\* torch.abs(a) >= k_value
abs_at_least(a, k_value) == [i \in 1..Len(a) |-> Abs(a[i]) >= k_value]

top_k_filter(a, k) ==
    abs_at_least(a, Kthvalue(SeqFloat32(SeqAbs(a)), top_k_count(Len(a), k)))

\* the trim that keeps the magnitudes above the threshold and drops the
\* threshold value itself
filter_top_k_strict(a, k) ==
    LET k_value == Kthvalue(SeqFloat32(SeqAbs(a)), top_k_count(Len(a), k))
    IN  [i \in 1..Len(a) |-> IF Abs(a[i]) > k_value THEN a[i] ELSE 0]

\* a * top_k_filter
masked(a, keep) == [i \in 1..Len(a) |-> IF keep[i] THEN a[i] ELSE 0]

filter_top_k(a, k) == masked(a, Tab(top_k_filter(a, k)))

\* step 3 of ties_sum_deltas (lines 225-231) on the delta_filters of line 222
ties_disjoint_merge(deltas, final_sign, delta_filters) ==
    LET T == 1..Len(deltas)
        P == 1..Len(deltas[1])
    IN  [deltas |-> deltas,
         final_sign |-> final_sign,
         param_counts |->
            [p \in P |-> Cardinality({t \in T : delta_filters[t][p]})],
         filtered_delta |->
            [t \in T |-> [p \in P |->
                IF delta_filters[t][p] THEN deltas[t][p] ELSE 0]]]

\* line 222 on the final_sign of line 217
ties_delta_filters(deltas, signs, final_sign) ==
    ties_disjoint_merge(
        deltas, final_sign,
        Tab([t \in 1..Len(deltas) |->
                Tab([p \in 1..Len(deltas[1]) |-> signs[t][p] = final_sign[p]])]))

\* line 217 on the signs of line 213
ties_elect(deltas, signs, vote_sgn) ==
    ties_delta_filters(
        deltas, signs,
        Tab([p \in 1..Len(deltas[1]) |->
                Sgn(SumSeq([t \in 1..Len(deltas) |->
                               IF RLe(vote_sgn, I(0)) THEN deltas[t][p]
                                                       ELSE signs[t][p]]))]))

\* line 213 on the trimmed deltas of lines 205-210
ties_signs(deltas, vote_sgn) ==
    ties_elect(deltas,
               Tab([t \in 1..Len(deltas) |->
                       Tab([p \in 1..Len(deltas[1]) |-> Sgn(deltas[t][p])])]),
               vote_sgn)

\* the locals of ties_sum_deltas; it returns filtered_delta and param_counts
ties_sum_deltas(models, k, vote_sgn) ==
    ties_signs(Tab([t \in 1..Len(models) |-> Tab(filter_top_k(models[t], k))]),
               vote_sgn)

\* ties_sum without the nan_to_num of line 194
ties_sum_raw(models, k, vote_sgn) ==
    LET d == ties_sum_deltas(models, k, vote_sgn)
        T == 1..Len(models)
    IN  [p \in 1..Len(models[1]) |->
            RDiv(I(SumSeq([t \in T |-> d.filtered_delta[t][p]])),
                 I(d.param_counts[p]))]

ties_sum(models, k, vote_sgn) ==
    LET d == ties_sum_deltas(models, k, vote_sgn)
        T == 1..Len(models)
    IN  [p \in 1..Len(models[1]) |->
            nan_to_num(RDiv(I(SumSeq([t \in T |-> d.filtered_delta[t][p]])),
                            I(d.param_counts[p])))]

\* the stacks the calls are made with: <<number of models, elements of each>>
TiesShapes == {<<1, 1>>, <<1, 2>>, <<1, 3>>, <<1, 4>>,
               <<2, 1>>, <<2, 2>>, <<3, 1>>}

TiesK == {Q(i, 4) : i \in 0..4}

InitTies ==
    /\ pc = "call"
    /\ \E sh \in TiesShapes :
          args \in [models : [1..sh[1] -> [1..sh[2] -> -MaxDelta..MaxDelta]],
                    k : TiesK, vote_sgn : {I(0), I(1)}]
    /\ res = Unused
    /\ mem = Unused
    /\ cache = Unused
    /\ solves = Unused

CallTiesSum ==
    /\ pc = "call"
    /\ res' = [top_k_filter |-> [t \in 1..Len(args.models) |->
                                  top_k_filter(args.models[t], args.k)],
               deltas |-> ties_sum_deltas(args.models, args.k, args.vote_sgn).deltas,
               out |-> ties_sum(args.models, args.k, args.vote_sgn)]
    /\ pc' = "done"
    /\ UNCHANGED <<args, mem, cache, solves>>

NextTies == CallTiesSum

SpecTies == InitTies /\ [][NextTies]_vars

\* the number of elements of the delta a that the trim left in place
Survivors(keep) == Cardinality({i \in 1..Len(keep) : keep[i]})

\* C4 as stated: the trim keeps the top (1-k) fraction: a delta with pairwise
\* distinct magnitudes keeps max(int((1-k)*numel), 1) elements, and k = 0
\* zeroes no element.
C4_KeepsOneMinusK ==
    pc = "done" =>
        \A t \in 1..Len(args.models) :
            LET a == args.models[t]
            IN  DistinctAbs(a) =>
                  /\ Survivors(res.top_k_filter[t]) = top_k_count(Len(a), args.k)
                  /\ args.k = I(0) => res.deltas[t] = a

\* C4 as amended: the trim keeps the elements at or above the
\* max(int((1-k)*numel), 1)-th smallest magnitude and zeroes the rest, i.e. it
\* keeps the top k fraction: a delta with pairwise distinct magnitudes keeps
\* its numel - max(int((1-k)*numel), 1) + 1 largest magnitudes; k = 0 keeps
\* only the element of largest magnitude, and k = 1 zeroes no element.
C4_KeepsTopK ==
    pc = "done" =>
        \A t \in 1..Len(args.models) :
            LET a == args.models[t]
                n == Len(a)
                kept == {i \in 1..n : res.top_k_filter[t][i]}
            IN  DistinctAbs(a) =>
                  /\ Cardinality(kept) = n - top_k_count(n, args.k) + 1
                  /\ \A i \in kept, j \in (1..n) \ kept : Abs(a[i]) > Abs(a[j])
                  /\ \A i \in 1..n :
                        res.deltas[t][i] = (IF i \in kept THEN a[i] ELSE 0)
                  /\ args.k = I(0) =>
                        kept = {i \in 1..n : \A j \in 1..n : Abs(a[j]) <= Abs(a[i])}
                  /\ args.k = I(1) => res.deltas[t] = a

\* a delta of three pairwise distinct magnitudes was trimmed with k = 0: only
\* its largest magnitude is left and a non-zero element was zeroed
C4_Witness ==
    /\ pc = "done"
    /\ args.k = I(0)
    /\ \E t \in 1..Len(args.models) :
          /\ Len(args.models[t]) = 3
          /\ DistinctAbs(args.models[t])
          /\ Survivors(res.top_k_filter[t]) = 1
          /\ \E i \in 1..3 : args.models[t][i] # 0 /\ res.deltas[t][i] = 0

\* the sum of f over the finite set S
RECURSIVE SumOver(_, _)
SumOver(S, f) ==
    IF S = {} THEN 0
    ELSE LET t == CHOOSE u \in S : TRUE IN f[t] + SumOver(S \ {t}, f)

\* C5: at every element position ties_sum returns the sum of the trimmed
\* deltas whose sign there equals the elected sign (the sign of the sum of the
\* trimmed deltas, or of the sum of their signs when vote_sgn > 0) divided by
\* the number of such deltas; where no delta agrees the output is exactly 0,
\* never NaN.
C5_DisjointMean ==
    pc = "done" =>
        \A p \in 1..Len(args.models[1]) :
            LET T == 1..Len(args.models)
                trimmed == [t \in T |-> res.deltas[t][p]]
                consensus ==
                    IF RLt(I(0), args.vote_sgn)
                    THEN Sgn(SumOver(T, [t \in T |-> Sgn(trimmed[t])]))
                    ELSE Sgn(SumOver(T, trimmed))
                agree == {t \in T : Sgn(trimmed[t]) = consensus}
            IN  /\ ~IsNaN(res.out[p])
                /\ IsFinite(res.out[p])
                /\ agree = {} => res.out[p] = I(0)
                /\ agree # {} =>
                      res.out[p] = Q(SumOver(agree, trimmed), Cardinality(agree))

\* two untrimmed deltas of equal magnitude and opposite sign met at an
\* element: nothing agrees with the elected sign 0 and the output is 0 there
C5_Witness ==
    /\ pc = "done"
    /\ Len(args.models) = 2
    /\ \E p \in 1..Len(args.models[1]) :
          /\ res.deltas[1][p] > 0
          /\ res.deltas[2][p] = -res.deltas[1][p]
          /\ res.out[p] = I(0)

(***************************************************************************)
(* weighted_sum, create_filter and crossover.  A tensor is a record        *)
(* [shape, data]; a filter is a function from the 0-based index tuples of  *)
(* its shape to its entries.                                               *)
(***************************************************************************)
\* weighted_sum on one element
weighted_sum(a, b, alpha) == RAdd(RMul(RSub(I(1), alpha), a), RMul(alpha, b))

\* weighted_sum on the elements of two tensors of integers
weighted_sum_data(a, b, alpha) ==
    [i \in 1..Len(a) |-> weighted_sum(I(a[i]), I(b[i]), alpha)]

\* x < EPSILON for EPSILON = 1e-10: a rational whose denominator is below 1e10
\* (every rational of the model) is below EPSILON exactly when it is <= 0
LtEPSILON(x) == x.n <= 0

\* torch.linspace(first, last, steps) of integers first and last
Linspace(first, last, steps) ==
    [j \in 1..steps |->
        IF steps = 1 THEN I(first)
        ELSE RAdd(I(first), Q((j - 1) * (last - first), steps - 1))]

\* one entry of `gradients`: the normalised frequency distance along an axis
\* of size s; `first` tells the axis enumerated first (the last of the shape)
Gradient(s, first) ==
    IF first \/ s = 1 THEN Linspace(0, 1, s)
    ELSE LET lo == Linspace(0, (s - 1) \div 2, s - s \div 2)
             hi == Linspace(s \div 2, 1, s \div 2)
         IN  [j \in 1..s |-> RDiv((lo \o hi)[j], I(s \div 2))]

\* the index tuples of a shape, 0-based
RECURSIVE Indices(_)
Indices(shape) ==
    IF shape = <<>> THEN {<<>>}
    ELSE {<<i>> \o rest : i \in 0..(shape[1] - 1), rest \in Indices(Tail(shape))}

RECURSIVE RSum(_)
RSum(x) == IF x = <<>> THEN I(0) ELSE RAdd(x[1], RSum(Tail(x)))

\* the square of `mesh` at an index tuple
MeshSq(shape, idx) ==
    LET k == Len(shape)
        g == [i \in 1..k |-> Gradient(shape[i], i = k)[idx[i] + 1]]
    IN  IF k > 1
        THEN RDiv(RSum([i \in 1..k |-> RMul(g[i], g[i])]), I(k))
        ELSE RMul(g[1], g[1])

\* the square root of a rational that is a perfect square
ISqrt(m) == CHOOSE r \in 0..m : r * r = m

RSqrt(x) == Q(ISqrt(x.n), ISqrt(x.d))

\* 1 / tan(pi * tilt / 2) for a tilt that is a multiple of 1/2 in (0, 4)
Cot(tilt) ==
    LET halves == (2 * tilt.n) \div tilt.d
    IN  IF halves % 4 = 1 THEN I(1)
        ELSE IF halves % 4 = 3 THEN I(-1)
        ELSE I(0)

Clip01(x) == RMax(I(0), RMin(x, I(1)))

Bit(b) == IF b THEN I(1) ELSE I(0)

create_filter(shape, alpha, tilt) ==
    IF ~(RLe(I(0), alpha) /\ RLe(alpha, I(1)))
    THEN [error |-> "ValueError", filter |-> <<>>]
    ELSE
    LET tilt1 == RSub(tilt, I(Floor(RMul(I(Floor(RDiv(tilt, I(4)))), I(4)))))
        alpha_inverted == RLt(I(2), tilt1)
        alpha1 == IF alpha_inverted THEN RSub(I(1), alpha) ELSE alpha
        cut == RSub(I(1), alpha1)
        tilt_cot == Cot(tilt1)
        entry(idx) ==
            IF LtEPSILON(tilt1) \/ LtEPSILON(RAbs(RSub(tilt1, I(4))))
            THEN Bit(RLt(RMul(cut, cut), MeshSq(shape, idx)))
            ELSE IF LtEPSILON(RAbs(RSub(tilt1, I(2))))
            THEN Bit(RLt(MeshSq(shape, idx), RMul(cut, cut)))
            ELSE LET mesh == RSqrt(MeshSq(shape, idx))
                 IN  IF RLe(tilt1, I(1)) \/ (RLt(I(2), tilt1) /\ RLe(tilt1, I(3)))
                     THEN Clip01(RSub(RAdd(RAdd(RMul(mesh, tilt_cot),
                                                RMul(alpha1, tilt_cot)), alpha1),
                                      tilt_cot))
                     ELSE Clip01(RAdd(RSub(RMul(mesh, tilt_cot),
                                           RMul(alpha1, tilt_cot)), alpha1))
    IN  [error |-> "",
         filter |-> [idx \in Indices(shape) |->
                        IF alpha_inverted THEN RSub(I(1), entry(idx))
                        ELSE entry(idx)]]

\* tilts: the multiples of 1/2 from -MaxTilt/2 to MaxTilt/2
Tilts == {Q(i, 2) : i \in -MaxTilt..MaxTilt}

HardTilts == {t \in Tilts : t.d = 1 /\ t.n % 2 = 0}

FilterAlphas == {Q(i, 4) : i \in -1..5}

\* mesh is rational on every 1-dimensional shape; the other shapes are given
\* the tilts that only compare mesh
FilterShapes1 == {<<n>> : n \in 1..MaxAxis}

FilterShapesN == {<<m, n>> : m, n \in 1..MaxAxis} \cup {<<2, 2, 2>>, <<1, 3, 2>>}

InitFilter ==
    /\ pc = "call"
    /\ \/ args \in [shape : FilterShapes1, alpha : FilterAlphas, tilt : Tilts]
       \/ args \in [shape : FilterShapesN, alpha : FilterAlphas, tilt : HardTilts]
    /\ res = Unused
    /\ mem = Unused
    /\ cache = Unused
    /\ solves = Unused

CallCreateFilter ==
    /\ pc = "call"
    /\ res' = create_filter(args.shape, args.alpha, args.tilt)
    /\ pc' = "done"
    /\ UNCHANGED <<args, mem, cache, solves>>

NextFilter == CallCreateFilter

SpecFilter == InitFilter /\ [][NextFilter]_vars

\* C7: create_filter(shape, alpha=0, tilt=0) has every entry 0 and
\* create_filter(shape, alpha=1, tilt=0) has every entry 1, the entry at the
\* zero-frequency position (mesh = 0) included.
C7_AllZeroAllOne ==
    (pc = "done" /\ args.tilt = I(0)) =>
        /\ args.alpha = I(0) =>
              \A idx \in Indices(args.shape) : res.filter[idx] = I(0)
        /\ args.alpha = I(1) =>
              \A idx \in Indices(args.shape) : res.filter[idx] = I(1)

(***************************************************************************)
(* crossover                                                               *)
(***************************************************************************)
\* the exponent e of the positive rational n/d: 2^e <= n/d < 2^(e+1)
RECURSIVE Log2Floor(_, _)
Log2Floor(n, d) ==
    IF n >= 2 * d THEN Log2Floor(n, 2 * d) + 1
    ELSE IF n < d THEN Log2Floor(2 * n, d) - 1
    ELSE 0

\* the spacing of the float16 values around the positive rational m: 2^(e-10)
\* for the exponent e of m, and 2^-24 in the subnormal range
HalfUlp(m) ==
    LET e == Max(Log2Floor(m.n, m.d), -14)
    IN  IF e >= 10 THEN I(2^(e - 10)) ELSE Q(1, 2^(10 - e))

\* x.half(): the nearest float16 value, ties to the even significand, and an
\* infinity from 65520 on
Half(x) ==
    IF x.d = 0 \/ x.n = 0 THEN x
    ELSE IF Abs(x.n) >= 65520 /\ RLe(I(65520), RAbs(x))
         THEN [n |-> Sgn(x.n), d |-> 0]
    ELSE LET u == HalfUlp(RAbs(x))
         IN  RMul(I(PyRound(RDiv(x, u))), u)

\* torch.isclose(x, y) with rtol = 1e-5 and atol = 1e-8:
\* |x - y| <= 1e-8 + 1e-5 * |y|, computed as 1e5 * |x - y| - |y| <= 1e-3
Isclose(x, y) ==
    IF x.d = 0 \/ y.d = 0 THEN x = y /\ ~IsNaN(x)
    ELSE IF x = y THEN TRUE
    ELSE LET z == RSub(RMul(I(100000), RAbs(RSub(x, y))), RAbs(y))
         IN  z.n <= 0 \/ (z.n < z.d /\ 1000 * z.n <= z.d)

\* torch.allclose(a.half(), b.half())
AllcloseHalf(a, b) ==
    \A i \in 1..Len(a) : Isclose(Half(a[i]), Half(b[i]))

\* torch.fft.rfft of a real sequence of length 1 or 2
Rfft(x) ==
    IF Len(x) = 1 THEN <<x[1]>>
    ELSE <<RAdd(x[1], x[2]), RSub(x[1], x[2])>>

\* torch.fft.irfft to length 1 or 2
Irfft(x) ==
    IF Len(x) = 1 THEN <<x[1]>>
    ELSE <<RDiv(RAdd(x[1], x[2]), I(2)), RDiv(RSub(x[1], x[2]), I(2))>>

IntsToR(x) == [i \in 1..Len(x) |-> I(x[i])]

\* crossover on tensors a, b of the same shape, 0- or 1-dimensional with at
\* most two elements; `path` names the return statement taken
crossover(a, b, alpha, tilt) ==
    IF alpha = I(0) THEN [path |-> "a", data |-> IntsToR(a.data)]
    ELSE IF alpha = I(1) THEN [path |-> "b", data |-> IntsToR(b.data)]
    ELSE IF tilt = I(1)
    THEN [path |-> "weighted_sum", data |-> weighted_sum_data(a.data, b.data, alpha)]
    ELSE IF Len(a.shape) = 0 \/ AllcloseHalf(IntsToR(a.data), IntsToR(b.data))
    THEN [path |-> "fallback", data |-> weighted_sum_data(a.data, b.data, tilt)]
    ELSE
    LET a_dft == Rfft(IntsToR(a.data))
        b_dft == Rfft(IntsToR(b.data))
        made == create_filter(<<Len(a_dft)>>, alpha, tilt)
        dft_filter == made.filter
        x_dft == [j \in 1..Len(a_dft) |->
                    RAdd(RMul(RSub(I(1), dft_filter[<<j - 1>>]), a_dft[j]),
                         RMul(dft_filter[<<j - 1>>], b_dft[j]))]
    IN  IF made.error # "" THEN [path |-> made.error, data |-> <<>>]
        ELSE [path |-> "fft", data |-> Irfft(x_dft)]

\* element values: small integers, and a pair that float16 cannot tell apart
CrossVals == (0..MaxVal) \cup {2048, 2049}

CrossShapes == {<<>>, <<1>>, <<2>>}

Numel(shape) == IF shape = <<>> THEN 1 ELSE shape[1]

CrossAlphas == {Q(i, 4) : i \in 0..5}

InitCrossover ==
    /\ pc = "call"
    /\ \E sh \in CrossShapes :
          args \in [a : [shape : {sh}, data : [1..Numel(sh) -> CrossVals]],
                    b : [shape : {sh}, data : [1..Numel(sh) -> CrossVals]],
                    alpha : CrossAlphas, tilt : Tilts]
    /\ res = Unused
    /\ mem = Unused
    /\ cache = Unused
    /\ solves = Unused

CallCrossover ==
    /\ pc = "call"
    /\ res' = crossover(args.a, args.b, args.alpha, args.tilt)
    /\ pc' = "done"
    /\ UNCHANGED <<args, mem, cache, solves>>

NextCrossover == CallCrossover

SpecCrossover == InitCrossover /\ [][NextCrossover]_vars

\* C6: with alpha not in {0, 1} and tilt # 1, when a is 0-dimensional or a and
\* b are indistinguishable at half precision, crossover returns
\* weighted_sum(a, b, alpha) = (1-alpha)*a + alpha*b.
C6_FallbackBlendsByAlpha ==
    (/\ pc = "done"
     /\ args.alpha \notin {I(0), I(1)}
     /\ args.tilt # I(1)
     /\ (Len(args.a.shape) = 0
         \/ AllcloseHalf(IntsToR(args.a.data), IntsToR(args.b.data))))
    => res.data = weighted_sum_data(args.a.data, args.b.data, args.alpha)

(***************************************************************************)
(* geometric_median_list_of_array: the Weiszfeld iteration, one action per *)
(* pass of the loop.  A point is the sequence of its elements.             *)
(***************************************************************************)
\* torch.clamp(x, min=lo): NaN stays NaN
ClampMin(x, lo) == IF IsNaN(x) THEN NaN ELSE RMax(x, lo)

\* the square root of a non-negative rational or special value; of the finite
\* values only perfect squares occur
RSqrtExt(x) == IF x.d = 0 THEN x ELSE RSqrt(x)

\* torch.dist(p1, p2, p=2)
l2distance(p1, p2) ==
    LET diff == [i \in 1..Len(p1) |-> RSub(p1[i], p2[i])]
        moved == {i \in 1..Len(p1) : diff[i] # I(0)}
    IN  IF moved = {} THEN I(0)
        ELSE IF Cardinality(moved) = 1
        THEN RAbs(diff[CHOOSE i \in moved : TRUE])
        ELSE RSqrtExt(RSum([i \in 1..Len(p1) |-> RMul(diff[i], diff[i])]))

weighted_average(points, weights) ==
    [j \in 1..Len(points[1]) |->
        RDiv(RSum([i \in 1..Len(points) |-> RMul(points[i][j], weights[i])]),
             RSum(weights))]

geometric_median_objective(median, points, weights) ==
    RDiv(RSum([i \in 1..Len(points) |->
                  RMul(l2distance(points[i], median), weights[i])]),
         I(Len(points)))

ones(n) == [i \in 1..n |-> I(1)]

\* the pass count of the loop that rounds maxiter up
iteration_limit_ceil(maxiter) == Max(0, -Floor(RNeg(maxiter)))

\* range(max(0, round(maxiter)))
iteration_limit(maxiter) == Max(0, PyRound(maxiter))

\* the points of the calls: one element each, or two elements of which the
\* second is common to all points (so every distance is rational)
GMPoints(n) ==
    {[i \in 1..n |-> <<I(x[i])>>] : x \in [1..n -> -2..2]}
    \cup {[i \in 1..n |-> <<I(x[i]), I(c)>>] : x \in [1..n -> -2..2], c \in {1}}

GMEps == {I(-1), I(0), I(1)}

GMFtol == {I(0), Q(1, 4), I(1)}

\* maxiter: the halves from -1/2 to 5/2, so at most two passes are made (the
\* numerators of a third pass exceed the integers of the model checker)
GMMaxiter == {Q(i, 2) : i \in -1..5}

InitGM ==
    /\ pc = "call"
    /\ \E n \in 1..MaxPoints :
          args \in [models : GMPoints(n), eps : GMEps, maxiter : GMMaxiter,
                    ftol : GMFtol]
    /\ res = Unused
    /\ mem = Unused
    /\ cache = Unused
    /\ solves = Unused

\* lines 790-795
GMEnter ==
    /\ pc = "call"
    /\ \E weights \in {Tab(ones(Len(args.models)))} :
       \E median \in {Tab(weighted_average(args.models, weights))} :
          res' = [iter |-> 0,
                  median |-> median,
                  new_weights |-> weights,
                  objective_value |->
                      geometric_median_objective(median, args.models, weights),
                  broke |-> FALSE,
                  out |-> <<>>]
    /\ pc' = "loop"
    /\ UNCHANGED <<args, mem, cache, solves>>

\* the loop of line 798 has a pass left and has not left by the break
GMCanIterate == ~res.broke /\ res.iter < iteration_limit(args.maxiter)

\* one pass of the loop of lines 798-806
GMIterate ==
    /\ pc = "loop"
    /\ GMCanIterate
    /\ \E weights \in {Tab(ones(Len(args.models)))} :
       \E prev_obj_value \in {res.objective_value} :
       \E denom \in {Tab([i \in 1..Len(args.models) |->
                             l2distance(args.models[i], res.median)])} :
       \E new_weights \in {Tab([i \in 1..Len(args.models) |->
                             RDiv(weights[i], ClampMin(denom[i], args.eps))])} :
       \E median \in {Tab(weighted_average(args.models, new_weights))} :
       \E objective_value \in
              {geometric_median_objective(median, args.models, weights)} :
          res' = [res EXCEPT
                    !.iter = @ + 1,
                    !.median = median,
                    !.new_weights = new_weights,
                    !.objective_value = objective_value,
                    !.broke = RLe(RAbs(RSub(prev_obj_value, objective_value)),
                                  RMul(args.ftol, objective_value))]
    /\ UNCHANGED <<pc, args, mem, cache, solves>>

\* line 808
GMReturn ==
    /\ pc = "loop"
    /\ ~GMCanIterate
    /\ res' = [res EXCEPT !.out = weighted_average(args.models, res.new_weights)]
    /\ pc' = "done"
    /\ UNCHANGED <<args, mem, cache, solves>>

NextGM == GMEnter \/ GMIterate \/ GMReturn

SpecGM == InitGM /\ [][NextGM]_vars

\* the unweighted arithmetic mean of the points
Mean(points) ==
    [j \in 1..Len(points[1]) |->
        RDiv(RSum([i \in 1..Len(points) |-> points[i][j]]), I(Len(points)))]

\* what C8 says of the passes: at most max(0, round(maxiter)) of them, none
\* when maxiter <= 0, an earlier stop only on the ftol test, a step to take
\* until the call has returned, and the mean returned when no pass was made
GMPassesBounded ==
    /\ pc \in {"loop", "done"} =>
          /\ res.iter <= Max(0, PyRound(args.maxiter))
          /\ RLe(args.maxiter, I(0)) => res.iter = 0
    /\ pc = "loop" =>
          (GMCanIterate \/ res.broke \/ res.iter = Max(0, PyRound(args.maxiter)))
    /\ pc = "done" =>
          /\ Len(res.out) = Len(args.models[1])
          /\ res.iter = 0 => res.out = Mean(args.models)
          /\ res.iter < Max(0, PyRound(args.maxiter)) => res.broke

Keys == {"k1", "k2"}

RECURSIVE Prod(_)
Prod(shape) == IF shape = <<>> THEN 1 ELSE Head(shape) * Prod(Tail(shape))

\* the shapes of the caller's tensors: 0-D, 2-D and a 4-D convolution kernel.
\* On each of them reshape(*shape_2d) returns a view of the tensor, never a
\* copy.
RotShapes == {<<>>, <<2, 1>>, <<1, 1, 1, 2>>}

TensorsOf(shape) ==
    [shape : {shape},
     data : {IntsToR(x) : x \in [1..Prod(shape) -> 0..MaxElem]}]

\* a[start:end] on an axis of n rows: Python's slice bounds
SliceBound(i, n) == IF i < 0 THEN Max(0, i + n) ELSE Min(i, n)

\* tensor_sum: the tensors a and b after the call and the tensor returned
tensor_sum(a, b, width, offset) ==
    IF a.shape = <<>>
    THEN [a |-> a, b |-> b,
          returns |-> IF RLt(Q(1, 2), width) THEN "b" ELSE "a"]
    ELSE LET n == a.shape[1]
             region == ratio_to_region(width, offset, n)
             start_i == SliceBound(region.start, n)
             end_i == SliceBound(region.end, n)
             row_len == Prod(Tail(a.shape))
             inside(i) == LET row == (i - 1) \div row_len
                          IN  start_i <= row /\ row < end_i
         IN  IF region.inverted
             THEN [a |-> a,
                   b |-> [b EXCEPT !.data =
                            [i \in 1..Len(b.data) |->
                                IF inside(i) THEN a.data[i] ELSE b.data[i]]],
                   returns |-> "b"]
             ELSE [a |-> [a EXCEPT !.data =
                            [i \in 1..Len(a.data) |->
                                IF inside(i) THEN b.data[i] ELSE a.data[i]]],
                   b |-> b,
                   returns |-> "a"]

\* <<rows, columns>> of a.reshape(*shape_2d)
shape_2d(shape) ==
    IF Len(shape) = 4 /\ shape[4] # 1
    THEN LET cols == shape[3] * shape[4]
         IN  <<Prod(shape) \div cols, cols>>
    ELSE <<shape[1], Prod(Tail(shape))>>

\* a_neurons.mean(0)
centroid(data, rows, cols) ==
    [c \in 1..cols |->
        RDiv(RSum([r \in 1..rows |-> data[(r - 1) * cols + c]]), I(rows))]

\* a_neurons -= a_centroid
centred(data, rows, cols) ==
    LET mean == centroid(data, rows, cols)
    IN  [i \in 1..Len(data) |-> RSub(data[i], mean[((i - 1) % cols) + 1])]

alignment_is_float(alignment) == alignment # I(PyRound(alignment))

\* orthogonal_procrustes(a_neurons, b_neurons, cancel_reflection): the
\* rotation is known by the flag it was solved with and by its size
orthogonal_procrustes(a_neurons, b_neurons, cancel_reflection) ==
    [cancel_reflection |-> cancel_reflection,
     n |-> a_neurons.cols,
     dtype |-> "working",
     rounded |-> FALSE]

\* rotation.to("cpu", torch.float16): the float16 copy kept in the cache
to_cpu_half(rotation) ==
    [rotation EXCEPT !.dtype = "float16", !.rounded = TRUE]

\* cache["rotation"].to(a.device, a.dtype): the float16 values, widened
to_working(rotation) == [rotation EXCEPT !.dtype = "working"]

\* the dictionary that fractional_matrix_power leaves: it keeps its own
\* entry for the matrix it decomposed and no other
fractional_matrix_power_cache(dict, transform) ==
    IF "eig" \in DOMAIN dict THEN dict
    ELSE [name \in DOMAIN dict \cup {"eig"} |->
             IF name = "eig" THEN [n |-> transform.n] ELSE dict[name]]

\* the dictionary of `key` that never finds the one already there
cache_entry_reset(c, key) == <<>>

\* if key not in cache: cache[key] = {}; cache = cache[key]
cache_entry(c, key) == IF key \in DOMAIN c THEN c[key] ELSE <<>>

\* the lookup that never finds a stored rotation
has_rotation_never(dict) == FALSE

\* "rotation" in cache
has_rotation(dict) == "rotation" \in DOMAIN dict

\* the power of the rotation applied to the neurons
transform_kind(alignment) ==
    IF alignment_is_float(alignment) THEN "fractional_matrix_power"
    ELSE IF alignment = I(0) THEN "eye"
    ELSE IF alignment # I(1) THEN "matrix_power"
    ELSE "rotation"

NoRotation == [cancel_reflection |-> FALSE, n |-> 0, dtype |-> "none",
               rounded |-> FALSE, by |-> "none"]

\* rotate once past both short-circuits (lines 533-578), on the centred
\* neurons and the dictionary of the key
rotate_neurons(a, b, alignment, use_cache, c, key, a_data, b_data, cols, dict) ==
    LET hit == use_cache /\ has_rotation(dict)
        rotation ==
            IF hit THEN to_working(dict["rotation"])
            ELSE orthogonal_procrustes([cols |-> cols, data |-> a_data],
                                       [cols |-> cols, data |-> b_data],
                                       alignment_is_float(alignment))
                   @@ [by |-> key]
        dict1 == IF hit THEN dict
                 ELSE [name \in DOMAIN dict \cup {"rotation"} |->
                          IF name = "rotation" THEN to_cpu_half(rotation)
                          ELSE dict[name]]
        dict2 == IF alignment_is_float(alignment)
                 THEN fractional_matrix_power_cache(dict1, rotation)
                 ELSE dict1
    IN  [a |-> [a EXCEPT !.data = a_data],
         b |-> [b EXCEPT !.data = b_data],
         cache |-> IF use_cache
                   THEN [k \in DOMAIN c \cup {key} |->
                            IF k = key THEN dict2 ELSE c[k]]
                   ELSE c,
         solver_called |-> ~hit,
         had_rotation |-> use_cache /\ key \in DOMAIN c
                            /\ "rotation" \in DOMAIN c[key],
         rotation |-> rotation,
         transform |-> transform_kind(alignment),
         path |-> "rotated",
         returns |-> "new"]

\* rotate: the tensors a and b and the cache after the call, and what the
\* call did.  use_cache is `cache is not None`.  The neurons are views of a
\* and b, so centring them centres a and b; `a_neurons @= transform` rebinds
\* the name to a new tensor, which is the one returned.
rotate(a, b, alignment, alpha, use_cache, c, key) ==
    LET short == [a |-> a, b |-> b, cache |-> c, solver_called |-> FALSE,
                  had_rotation |-> FALSE, rotation |-> NoRotation,
                  transform |-> "none"]
        rc == shape_2d(a.shape)
    IN  IF alignment = I(0) /\ alpha = I(0)
        THEN short @@ [path |-> "a", returns |-> "a"]
        ELSE IF Len(a.shape) < 2 \/ AllcloseHalf(a.data, b.data)
        THEN short @@ [path |-> "weighted_sum", returns |-> "new"]
        ELSE rotate_neurons(a, b, alignment, use_cache, c, key,
                            Tab(centred(a.data, rc[1], rc[2])),
                            Tab(centred(b.data, rc[1], rc[2])),
                            rc[2],
                            IF use_cache THEN cache_entry(c, key) ELSE <<>>)

Alignments == {I(0), Q(1, 2), I(1), I(2)}

RotAlphas == {I(0), Q(1, 2)}

SumWidths == {I(0), Q(1, 2), Q(3, 4), I(1)}

SumOffsets == {I(0), Q(1, 2)}

TensorPairs ==
    UNION {[a : TensorsOf(shape), b : TensorsOf(shape)] : shape \in RotShapes}

NoCall == [op |-> "none", key |-> "none", alignment |-> I(0), alpha |-> I(0),
           use_cache |-> FALSE, width |-> I(0), offset |-> I(0)]

NoResult == [path |-> "none", returns |-> "none", solver_called |-> FALSE,
             had_rotation |-> FALSE, rotation |-> NoRotation,
             transform |-> "none"]

Init ==
    /\ pc = 0
    /\ args = NoCall
    /\ res = NoResult
    /\ mem \in TensorPairs
    /\ cache = <<>>
    /\ solves = [k \in Keys |-> 0]

CallTensorSum ==
    /\ pc < MaxCalls
    /\ pc' = pc + 1
    /\ \E width \in SumWidths, offset \in SumOffsets :
       \E r \in {tensor_sum(mem.a, mem.b, width, offset)} :
        /\ mem' = [a |-> r.a, b |-> r.b]
        /\ args' = [NoCall EXCEPT !.op = "tensor_sum", !.width = width,
                                  !.offset = offset]
        /\ res' = [NoResult EXCEPT !.path = "tensor_sum", !.returns = r.returns]
        /\ UNCHANGED <<cache, solves>>

CallRotate ==
    /\ pc < MaxCalls
    /\ pc' = pc + 1
    /\ \E key \in Keys, alignment \in Alignments, alpha \in RotAlphas,
          use_cache \in BOOLEAN :
       \E r \in {rotate(mem.a, mem.b, alignment, alpha, use_cache, cache, key)} :
        /\ mem' = [a |-> r.a, b |-> r.b]
        /\ cache' = r.cache
        /\ solves' = IF use_cache /\ r.solver_called
                     THEN [solves EXCEPT ![key] = @ + 1]
                     ELSE solves
        /\ args' = [NoCall EXCEPT !.op = "rotate", !.key = key,
                                  !.alignment = alignment, !.alpha = alpha,
                                  !.use_cache = use_cache]
        /\ res' = [path |-> r.path, returns |-> r.returns,
                   solver_called |-> r.solver_called,
                   had_rotation |-> r.had_rotation,
                   rotation |-> r.rotation, transform |-> r.transform]

Next == CallTensorSum \/ CallRotate

Spec == Init /\ [][Next]_vars

\* C1: every operator is pure with respect to its operands: after any call,
\* and in particular after tensor_sum on tensors with at least one dimension
\* and after a rotate call that is not short-circuited, the caller's tensors a
\* and b hold exactly the values they held before the call.
C1_InputsUntouched ==
    [][args'.op \in {"tensor_sum", "rotate"} => mem' = mem]_vars

\* the calls with a cache that went past both short-circuits left a rotation
\* under their key
StoredRotation(key) ==
    /\ key \in DOMAIN cache
    /\ "rotation" \in DOMAIN cache[key]

\* C2: among the rotate calls that share the cache, the solver is called at
\* most once per key: the first call for a key that is not short-circuited
\* solves for the rotation and stores it, and every later one reads the stored
\* rotation.
C2_SolvedOncePerKey ==
    /\ \A k \in Keys :
          /\ solves[k] <= 1
          /\ solves[k] = 1 <=> StoredRotation(k)
    /\ (args.op = "rotate" /\ args.use_cache /\ res.path = "rotated") =>
          /\ StoredRotation(args.key)
          /\ res.solver_called <=> ~res.had_rotation
          /\ res.solver_called =>
                cache[args.key]["rotation"] = to_cpu_half(res.rotation)
          /\ ~res.solver_called =>
                res.rotation = to_working(cache[args.key]["rotation"])

\* a later call for a key read the rotation that an earlier call had stored
C2_Witness ==
    /\ args.op = "rotate" /\ args.use_cache /\ res.path = "rotated"
    /\ res.had_rotation /\ ~res.solver_called
    /\ solves[args.key] = 1
    /\ res.rotation = to_working(cache[args.key]["rotation"])

\* C3: a rotation stored under a key was computed by a call with that key, is
\* read only by calls with that key, and is never overwritten or removed by a
\* later rotate call; a short-circuited call leaves the cache as it was.
C3_KeyIsolation ==
    /\ [](\A k \in Keys :
            StoredRotation(k) => cache[k]["rotation"].by = k)
    /\ []((args.op = "rotate" /\ res.path = "rotated" /\ ~res.solver_called)
            => res.rotation.by = args.key)
    /\ [][\A k \in Keys :
            StoredRotation(k) =>
                /\ k \in DOMAIN cache'
                /\ "rotation" \in DOMAIN cache'[k]
                /\ cache'[k]["rotation"] = cache[k]["rotation"]]_vars
    /\ [][(args'.op = "rotate" /\ res'.path \in {"a", "weighted_sum"})
            => cache' = cache]_vars

\* both keys hold their own rotation, solved with different flags, and the
\* last call, for one of them, was short-circuited
C3_Witness ==
    /\ StoredRotation("k1") /\ StoredRotation("k2")
    /\ cache["k1"]["rotation"].cancel_reflection
         # cache["k2"]["rotation"].cancel_reflection
    /\ args.op = "rotate" /\ args.use_cache
    /\ res.path \in {"a", "weighted_sum"}


\* C14: in every rotate call that is not short-circuited and whose alignment
\* is fractional, the rotation raised to the fractional power was produced by
\* the Procrustes solver with reflection cancellation enabled, whatever the
\* earlier calls sharing the cache and the key were made with.
C14_FractionalPowerOfProperRotation ==
    (/\ args.op = "rotate"
     /\ res.path = "rotated"
     /\ alignment_is_float(args.alignment))
    => /\ res.transform = "fractional_matrix_power"
       /\ res.rotation.cancel_reflection

(***************************************************************************)
(* overlapping_sets_pmf: the distribution dropout samples its masks from.  *)
(* The result is the sequence of its 2^n entries.                          *)
(***************************************************************************)
\* bin(i).count("1")
RECURSIVE Popcount(_)
Popcount(i) == IF i = 0 THEN 0 ELSE (i % 2) + Popcount(i \div 2)

\* the loop of lines 727-728 from pass i on
RECURSIVE binomial_loop(_, _, _, _)
binomial_loop(n, k, i, result) ==
    IF i > k THEN result
    ELSE binomial_loop(n, k, i + 1, (result * (n - i + 1)) \div i)

binomial_coefficient_np(n, k) ==
    binomial_loop(n, IF k > n - k THEN n - k ELSE k, 1, 1)

RECURSIVE RPow(_, _)
RPow(x, k) == IF k = 0 THEN I(1) ELSE RMul(x, RPow(x, k - 1))

\* scipy.stats.binom.pmf(k, n, p)
binom_pmf(k, n, p) ==
    RMul(I(binomial_coefficient_np(n, k)),
         RMul(RPow(p, k), RPow(RSub(I(1), p), n - k)))

\* weighted_sum on two sequences
weighted_sum_seq(a, b, alpha) ==
    [i \in 1..Len(a) |-> weighted_sum(a[i], b[i], alpha)]

\* the overlaps of the calls: integers, and the halves 1/2 and 3/2, at which
\* tan(pi * (overlap - 0.5)) is 0
Overlaps == {I(-1), I(0), I(1), I(2), I(3), Q(1, 2), Q(3, 2)}

\* the first pmf of lines 692-705, over the non-empty subsets 1..2^n-1
overlap_pmf(n, overlap) ==
    IF overlap = I(PyRound(overlap))
    THEN IF PyRound(overlap) % 2 = 0
         THEN [i \in 1..(2^n - 1) |->
                  IF Popcount(i) = 1 THEN Q(1, n) ELSE I(0)]
         ELSE [i \in 1..(2^n - 1) |-> IF i = 2^n - 1 THEN I(1) ELSE I(0)]
    ELSE [i \in 1..(2^n - 1) |-> Q(1, 2^n - 1)]

\* the overlap after line 699 has negated it
overlap_folded(overlap) ==
    IF overlap # I(PyRound(overlap)) /\ Floor(overlap) % 2 = 1
    THEN RNeg(overlap)
    ELSE overlap

\* expanded_binomial_pmf of lines 707-712
expanded_binomial_pmf(n, p) ==
    LET raw == [i \in 1..(2^n - 1) |->
                   RDiv(binom_pmf(Popcount(i), n, p),
                        I(binomial_coefficient_np(n, Popcount(i))))]
        total == RSum(raw)
    IN  [i \in 1..(2^n - 1) |-> RDiv(raw[i], total)]

overlapping_sets_pmf(n, p, overlap, overlap_emphasis) ==
    LET pmf == Tab(overlap_pmf(n, overlap))
        folded == overlap_folded(overlap)
        inner == weighted_sum_seq(
                     pmf, Tab(expanded_binomial_pmf(n, p)),
                     RSub(I(1), RAbs(RSub(RMul(I(2), folded), I(1)))))
        blend == weighted_sum_seq(pmf, inner, overlap_emphasis)
    IN  <<p>> \o [i \in 1..(2^n - 1) |-> RMul(blend[i], RSub(I(1), p))]

PmfProbabilities == {Q(i, 4) : i \in 0..4}

PmfEmphases == {I(0), Q(1, 2), I(1)}

InitPmf ==
    /\ pc = "call"
    /\ args \in [n : 1..MaxSets, p : PmfProbabilities, overlap : Overlaps,
                 overlap_emphasis : PmfEmphases]
    /\ res = Unused
    /\ mem = Unused
    /\ cache = Unused
    /\ solves = Unused

CallOverlappingSetsPmf ==
    /\ pc = "call"
    /\ res' = Tab(overlapping_sets_pmf(args.n, args.p, args.overlap,
                                       args.overlap_emphasis))
    /\ pc' = "done"
    /\ UNCHANGED <<args, mem, cache, solves>>

NextPmf == CallOverlappingSetsPmf

SpecPmf == InitPmf /\ [][NextPmf]_vars

\* C12: for every n >= 1, p in [0,1], overlap_emphasis in [0,1] and every
\* overlap, integer-valued ones included, the result is a probability mass
\* function over the 2^n masking patterns: its length is 2^n, entry 0 is p,
\* every entry is non-negative, and the entries 1..2^n-1 sum to 1 - p.
C12_IsPmf ==
    pc = "done" =>
        /\ Len(res) = 2^args.n
        /\ res[1] = args.p
        /\ \A i \in 1..Len(res) : RLe(I(0), res[i])
        /\ RSum(Tail(res)) = RSub(I(1), args.p)


(***************************************************************************)
(* ties_sum_extended: the TIES engine with the Model-Stock factor or the   *)
(* geometric median.  A call either returns a tensor or raises.            *)
(***************************************************************************)
\* the 2-norm of a row whose sum of squares is a perfect square
Norm(x) ==
    LET nonzero == {i \in 1..Len(x) : x[i] # I(0)}
    IN  IF nonzero = {} THEN I(0)
        ELSE IF Cardinality(nonzero) = 1
        THEN RAbs(x[CHOOSE i \in nonzero : TRUE])
        ELSE RSqrtExt(RSum([i \in 1..Len(x) |-> RMul(x[i], x[i])]))

\* torch.nn.CosineSimilarity(dim=-1, eps=cos_eps) on two rows
CosineSimilarity(x, y, cos_eps) ==
    RDiv(RSum([i \in 1..Len(x) |-> RMul(x[i], y[i])]),
         RMax(RMul(Norm(x), Norm(y)), cos_eps))

\* get_model_stock_t: torch.stack raises on the empty list of similarities
get_model_stock_t(deltas, cos_eps) ==
    LET n == Len(deltas)
        cos_thetas == [i \in 1..(n - 1) |->
                          CosineSimilarity(deltas[i], deltas[i + 1], cos_eps)]
    IN  IF cos_thetas = <<>>
        THEN [raised |-> "RuntimeError", t |-> NaN]
        ELSE LET cos_theta == RDiv(RSum(cos_thetas), I(n - 1))
             IN  [raised |-> "none",
                  t |-> RDiv(RMul(I(n), cos_theta),
                             RAdd(I(1), RMul(I(n - 1), cos_theta)))]

\* the loop of lines 798-806 from pass `iter` on, and the return of line 808;
\* the locals of a pass are handed on as they are computed
RECURSIVE weiszfeld(_, _, _, _, _, _, _, _)
weiszfeld_test(models, eps, ftol, limit, iter, prev_obj_value, new_weights, median, objective_value) ==
    IF RLe(RAbs(RSub(prev_obj_value, objective_value)),
           RMul(ftol, objective_value))
    THEN weighted_average(models, new_weights)
    ELSE weiszfeld(models, eps, ftol, limit, iter + 1, median, new_weights,
                   objective_value)

weiszfeld_objective(models, eps, ftol, limit, iter, prev_obj_value, new_weights, median) ==
    weiszfeld_test(models, eps, ftol, limit, iter, prev_obj_value, new_weights,
                   median,
                   geometric_median_objective(median, models,
                                              ones(Len(models))))

weiszfeld_median(models, eps, ftol, limit, iter, prev_obj_value, new_weights) ==
    weiszfeld_objective(models, eps, ftol, limit, iter, prev_obj_value,
                        new_weights,
                        Tab(weighted_average(models, new_weights)))

weiszfeld(models, eps, ftol, limit, iter, median, new_weights, objective_value) ==
    IF iter >= limit THEN weighted_average(models, new_weights)
    ELSE weiszfeld_median(
             models, eps, ftol, limit, iter, objective_value,
             Tab([i \in 1..Len(models) |->
                     RDiv(I(1), ClampMin(l2distance(models[i], median), eps))]))

\* lines 790-795, with the initial median handed on
geometric_median_start(models, eps, maxiter, ftol, median) ==
    weiszfeld(models, eps, ftol, iteration_limit(maxiter), 0, median,
              Tab(ones(Len(models))),
              geometric_median_objective(median, models, ones(Len(models))))

\* geometric_median_list_of_array as one call
geometric_median_list_of_array(models, eps, maxiter, ftol) ==
    geometric_median_start(models, eps, maxiter, ftol,
                           Tab(weighted_average(models, ones(Len(models)))))

\* lines 156-171 on the filtered_delta and param_counts of line 156
ties_sum_extended_of(filtered_delta, param_counts, apply_stock, cos_eps, apply_median, eps, maxiter, ftol) ==
    LET T == 1..Len(filtered_delta)
        P == 1..Len(filtered_delta[1])
    IN  IF RLe(apply_median, I(0))
        THEN LET stock == IF RLe(apply_stock, I(0))
                          THEN [raised |-> "none", t |-> I(1)]
                          ELSE get_model_stock_t(filtered_delta, cos_eps)
             IN  IF stock.raised # "none"
                 THEN [raised |-> stock.raised, out |-> <<>>]
                 ELSE [raised |-> "none",
                       out |-> [p \in P |->
                           nan_to_num(RDiv(
                               RMul(RSum([t \in T |-> filtered_delta[t][p]]),
                                    stock.t),
                               I(param_counts[p])))]]
        ELSE [raised |-> "none",
              out |-> [p \in P |->
                  nan_to_num(geometric_median_list_of_array(
                                 filtered_delta, eps, maxiter, ftol)[p])]]

ties_sum_extended_on(d, apply_stock, cos_eps, apply_median, eps, maxiter, ftol) ==
    ties_sum_extended_of(
        Tab([t \in 1..Len(d.filtered_delta) |->
                Tab(IntsToR(d.filtered_delta[t]))]),
        Tab(d.param_counts), apply_stock, cos_eps, apply_median, eps, maxiter,
        ftol)

ties_sum_extended(models, k, vote_sgn, apply_stock, cos_eps, apply_median, eps, maxiter, ftol) ==
    ties_sum_extended_on(ties_sum_deltas(models, k, vote_sgn), apply_stock,
                         cos_eps, apply_median, eps, maxiter, ftol)

\* the stacks of the calls: one delta of up to three elements, or up to three
\* deltas of one element (whose norms and distances are rational)
TiesExtShapes == {<<1, 1>>, <<1, 2>>, <<1, 3>>, <<2, 1>>, <<3, 1>>}

InitTiesExt ==
    /\ pc = "call"
    /\ \E sh \in TiesExtShapes :
          args \in [models : [1..sh[1] -> [1..sh[2] -> -MaxDelta..MaxDelta]],
                    k : {I(0), Q(1, 2), I(1)},
                    vote_sgn : {I(0), I(1)},
                    apply_stock : {I(0), I(1)},
                    cos_eps : {Q(1, 1000000)},
                    apply_median : {I(0), I(1)},
                    eps : {I(0), Q(1, 4)},
                    maxiter : {I(0), I(1)},
                    ftol : {I(0)}]
    /\ res = Unused
    /\ mem = Unused
    /\ cache = Unused
    /\ solves = Unused

CallTiesSumExtended ==
    /\ pc = "call"
    /\ \E r \in {ties_sum_extended(args.models, args.k, args.vote_sgn,
                                   args.apply_stock, args.cos_eps,
                                   args.apply_median, args.eps, args.maxiter,
                                   args.ftol)} :
          res' = [raised |-> r.raised, out |-> Tab(r.out)]
    /\ pc' = "done"
    /\ UNCHANGED <<args, mem, cache, solves>>

NextTiesExt == CallTiesSumExtended

SpecTiesExt == InitTiesExt /\ [][NextTiesExt]_vars

\* C13: ties_sum_extended operates over any number n >= 1 of deltas: for a
\* single delta it returns a tensor and raises no error in each of its modes:
\* with apply_median > 0, with apply_stock > 0, and with neither.
C13_SingleDeltaReturns ==
    (pc = "done" /\ Len(args.models) = 1) =>
        /\ res.raised = "none"
        /\ Len(res.out) = Len(args.models[1])

=============================================================================
